---- MODULE Spec2Model ----
(***************************************************************************)
(* SpiralSafe Vortex contract (near-bridge/spiralsafe-contract.rs).        *)
(*                                                                         *)
(* The contract struct SpiralSafeVortex is the variable `self`; every      *)
(* public change method is one action.  A NEAR function call is one        *)
(* transaction: a panic (assert!, assert_eq!) aborts it and none of its    *)
(* writes are kept.  The methods are operators from a contract value to an *)
(* outcome [state, panic, ret]; the action commits outcome.state unless    *)
(* the call panicked.  The persistent collections (LookupMap,              *)
(* UnorderedMap, Vector) are maps and sequences; their storage keys are    *)
(* not part of the model.                                                  *)
(***************************************************************************)
EXTENDS Integers, Sequences, FiniteSets

VARIABLES
    self,   \* the contract state (struct SpiralSafeVortex)
    call,   \* the last function call: method, caller, arguments, outcome, and
            \* for an accepted record_atom the repo's aggregate before the call
    log,    \* history: the accepted submissions, oldest first, each with the
            \* snap_in_threshold in force when it was accepted
    overridden  \* history: the repos whose average the owner has overwritten
                \* (update_coherence) after the last submission accepted for them

vars == <<self, call, log, overridden>>

-----------------------------------------------------------------------------
(* Bounds of the model *)

\* at most this many accepted submissions in one behaviour
MaxAtoms == 3

\* at most this many records in one batch_record_atoms call
MaxBatch == 2

-----------------------------------------------------------------------------
(* Rust values *)

None == <<>>
Some(x) == <<x>>

\* `x as u8`
AsU8(x) == x % 256

\* LookupMap / UnorderedMap: get and insert
Get(m, k) == IF k \in DOMAIN m THEN Some(m[k]) ELSE None
Insert(m, k, v) == [x \in DOMAIN m \cup {k} |-> IF x = k THEN v ELSE m[x]]
EmptyMap == [x \in {} |-> None]

\* the outcome of a method body: the state it reached, the panic message
\* ("" when it returned) and the returned value
Ok(state, ret) == [state |-> state, panic |-> "", ret |-> ret]
Panic(state, msg) == [state |-> state, panic |-> msg, ret |-> None]

-----------------------------------------------------------------------------
(* Inputs *)

Owner == "owner.near"
Callers == {Owner, "alice.near"}

Tags == {"ATOM-1", "ATOM-2"}
Repos == {"QDI", "HOPE"}
Contributors == {"toolate28", "test"}
Scores == {70, 85}

\* the fields of a record that no change method reads, and its timestamp
Payloads ==
    { [phases_passed |-> <<"KENL", "AWI">>, markers |-> <<"WAVE", "PASS">>,
       timestamp |-> "2026-01-17T00:00:00Z", commit_hash |-> "abc123",
       pr_number |-> Some(42)],
      [phases_passed |-> <<>>, markers |-> <<"H&&S">>,
       timestamp |-> "2026-01-18", commit_hash |-> "abc",
       pr_number |-> None] }

ATOMOnChain(tag, repo, score, contributor, p) ==
    [atom_tag |-> tag, repo |-> repo, coherence_score |-> score,
     phases_passed |-> p.phases_passed, markers |-> p.markers,
     contributor |-> contributor, timestamp |-> p.timestamp,
     commit_hash |-> p.commit_hash, pr_number |-> p.pr_number]

\* Eight of the 32 records over these values, chosen so that every combination
\* of tag, contributor and score occurs, and every combination of values of
\* any two fields: the repo is "QDI" exactly when a record of "ATOM-1" comes
\* from "toolate28" or one of "ATOM-2" from "test", and the payload is the
\* first one exactly when a record of "ATOM-1" scores 70 or one of "ATOM-2" 85.
ValidAtoms ==
    { ATOMOnChain(t, r, s, c, p) :
        <<t, r, s, c, p>> \in
            { x \in Tags \X Repos \X Scores \X Contributors \X Payloads :
                /\ (x[2] = "QDI") <=> ((x[1] = "ATOM-1") <=> (x[4] = "toolate28"))
                /\ (x[5].pr_number # None) <=> ((x[1] = "ATOM-1") <=> (x[3] = 70)) } }

APayload == CHOOSE p \in Payloads : p.pr_number = None

\* records that record_atom rejects: a score over 100, an empty tag, or both
InvalidAtoms ==
    { ATOMOnChain("ATOM-1", "QDI", 101, "test", APayload),
      ATOMOnChain("", "QDI", 85, "test", APayload),
      ATOMOnChain("", "HOPE", 255, "toolate28", APayload) }

AtomInputs == ValidAtoms \cup InvalidAtoms

\* the records batches are made of: three that are accepted (two of them with
\* the same tag) and one that is rejected
BatchAtoms ==
    { a \in ValidAtoms : a.contributor = "test" /\ (a.atom_tag = "ATOM-1" \/ a.coherence_score = 85) }
    \cup { ATOMOnChain("ATOM-2", "HOPE", 150, "toolate28", APayload) }

\* the u8 arguments of the governance methods
ThresholdInputs == {80, 101}
CoherenceInputs == {42}

\* env::block_height() and env::block_timestamp(): the block the contract is
\* deployed in, and the blocks the later calls run in
DeployBlock == [height |-> 7, timestamp |-> 1000]
Blocks == { [height |-> 8, timestamp |-> 2000] }

\* u64::to_string, decimal digits
Digit(d) == <<"0", "1", "2", "3", "4", "5", "6", "7", "8", "9">>[d + 1]
RECURSIVE to_string(_)
to_string(n) == IF n < 10 THEN <<Digit(n)>> ELSE Append(to_string(n \div 10), Digit(n % 10))

-----------------------------------------------------------------------------
(* The contract *)

\* #[init] new(owner)
new(owner, block) ==
    [atoms |-> EmptyMap,
     repos |-> EmptyMap,
     contributor_atoms |-> EmptyMap,
     vortex_state |-> [total_atoms |-> 0, average_coherence |-> 0,
                       snap_in_count |-> 0,
                       last_update |-> to_string(block.timestamp)],
     owner |-> owner,
     snap_in_threshold |-> 70]

\* update_repo_state with the average taken before the new score is added
update_repo_state_stale_sum(s, atom) ==
    LET found == Get(s.repos, atom.repo)
        state == IF found # None THEN found[1]
                 ELSE [repo |-> atom.repo, atom_count |-> 0, total_coherence |-> 0,
                       average_coherence |-> 0, last_snap_in |-> None]
        atom_count == state.atom_count + 1
        new_state ==
            [repo |-> state.repo,
             atom_count |-> atom_count,
             total_coherence |-> state.total_coherence + atom.coherence_score,
             average_coherence |-> AsU8(state.total_coherence \div atom_count),
             last_snap_in |-> IF atom.coherence_score >= s.snap_in_threshold
                              THEN Some(atom.timestamp)
                              ELSE state.last_snap_in]
    IN  [s EXCEPT !.repos = Insert(s.repos, atom.repo, new_state)]

\* update_repo_state with the average continued from the stored average, the
\* way update_vortex_state continues the global one
update_repo_state_running(s, atom) ==
    LET found == Get(s.repos, atom.repo)
        state == IF found # None THEN found[1]
                 ELSE [repo |-> atom.repo, atom_count |-> 0, total_coherence |-> 0,
                       average_coherence |-> 0, last_snap_in |-> None]
        atom_count == state.atom_count + 1
        new_state ==
            [repo |-> state.repo,
             atom_count |-> atom_count,
             total_coherence |-> state.total_coherence + atom.coherence_score,
             average_coherence |->
                AsU8((state.average_coherence * state.atom_count + atom.coherence_score)
                        \div atom_count),
             last_snap_in |-> IF atom.coherence_score >= s.snap_in_threshold
                              THEN Some(atom.timestamp)
                              ELSE state.last_snap_in]
    IN  [s EXCEPT !.repos = Insert(s.repos, atom.repo, new_state)]

\* update_repo_state with > for >= in the check of the threshold
update_repo_state_strict(s, atom) ==
    LET found == Get(s.repos, atom.repo)
        state == IF found # None THEN found[1]
                 ELSE [repo |-> atom.repo, atom_count |-> 0, total_coherence |-> 0,
                       average_coherence |-> 0, last_snap_in |-> None]
        atom_count == state.atom_count + 1
        total_coherence == state.total_coherence + atom.coherence_score
        new_state ==
            [repo |-> state.repo,
             atom_count |-> atom_count,
             total_coherence |-> total_coherence,
             average_coherence |-> AsU8(total_coherence \div atom_count),
             last_snap_in |-> IF atom.coherence_score > s.snap_in_threshold
                              THEN Some(atom.timestamp)
                              ELSE state.last_snap_in]
    IN  [s EXCEPT !.repos = Insert(s.repos, atom.repo, new_state)]

update_repo_state(s, atom) ==
    LET found == Get(s.repos, atom.repo)
        state == IF found # None THEN found[1]
                 ELSE [repo |-> atom.repo, atom_count |-> 0, total_coherence |-> 0,
                       average_coherence |-> 0, last_snap_in |-> None]
        atom_count == state.atom_count + 1
        total_coherence == state.total_coherence + atom.coherence_score
        new_state ==
            [repo |-> state.repo,
             atom_count |-> atom_count,
             total_coherence |-> total_coherence,
             average_coherence |-> AsU8(total_coherence \div atom_count),
             last_snap_in |-> IF atom.coherence_score >= s.snap_in_threshold
                              THEN Some(atom.timestamp)
                              ELSE state.last_snap_in]
    IN  [s EXCEPT !.repos = Insert(s.repos, atom.repo, new_state)]

\* add_to_contributor_trail that leaves out a tag the trail already holds
add_to_contributor_trail_once(s, atom) ==
    LET found == Get(s.contributor_atoms, atom.contributor)
        trail == IF found # None THEN found[1] ELSE <<>>
    IN  [s EXCEPT !.contributor_atoms =
            Insert(s.contributor_atoms, atom.contributor,
                   IF \E i \in 1..Len(trail) : trail[i] = atom.atom_tag
                   THEN trail
                   ELSE Append(trail, atom.atom_tag))]

add_to_contributor_trail(s, atom) ==
    LET found == Get(s.contributor_atoms, atom.contributor)
        trail == IF found # None THEN found[1] ELSE <<>>
    IN  [s EXCEPT !.contributor_atoms =
            Insert(s.contributor_atoms, atom.contributor, Append(trail, atom.atom_tag))]

\* update_vortex_state with the implied previous total taken after the count
\* is incremented
update_vortex_state_late_total(s, atom, block) ==
    LET total_atoms == s.vortex_state.total_atoms + 1
        prev_total == total_atoms * s.vortex_state.average_coherence
        new_avg == (prev_total + atom.coherence_score) \div total_atoms
    IN  [s EXCEPT !.vortex_state.total_atoms = total_atoms,
                  !.vortex_state.average_coherence = AsU8(new_avg),
                  !.vortex_state.last_update = to_string(block.timestamp)]

\* the sum of total_coherence over the aggregates of the repos in R
RECURSIVE TotalCoherence(_, _)
TotalCoherence(s, R) ==
    IF R = {} THEN 0
    ELSE LET repo == CHOOSE r \in R : TRUE
         IN  s.repos[repo].total_coherence + TotalCoherence(s, R \ {repo})

\* update_vortex_state on the exact sums that update_repo_state has just
\* brought up to date
update_vortex_state_exact(s, atom, block) ==
    LET total_atoms == s.vortex_state.total_atoms + 1
        new_avg == TotalCoherence(s, DOMAIN s.repos) \div total_atoms
    IN  [s EXCEPT !.vortex_state.total_atoms = total_atoms,
                  !.vortex_state.average_coherence = AsU8(new_avg),
                  !.vortex_state.last_update = to_string(block.timestamp)]

\* update_vortex_state that rounds the new average to the nearest integer
update_vortex_state_nearest(s, atom, block) ==
    LET prev_total == s.vortex_state.total_atoms * s.vortex_state.average_coherence
        total_atoms == s.vortex_state.total_atoms + 1
        new_avg == (2 * (prev_total + atom.coherence_score) + total_atoms)
                        \div (2 * total_atoms)
    IN  [s EXCEPT !.vortex_state.total_atoms = total_atoms,
                  !.vortex_state.average_coherence = AsU8(new_avg),
                  !.vortex_state.last_update = to_string(block.timestamp)]

\* update_vortex_state that rounds the new average up
update_vortex_state_up(s, atom, block) ==
    LET prev_total == s.vortex_state.total_atoms * s.vortex_state.average_coherence
        total_atoms == s.vortex_state.total_atoms + 1
        new_avg == (prev_total + atom.coherence_score + total_atoms - 1) \div total_atoms
    IN  [s EXCEPT !.vortex_state.total_atoms = total_atoms,
                  !.vortex_state.average_coherence = AsU8(new_avg),
                  !.vortex_state.last_update = to_string(block.timestamp)]

update_vortex_state(s, atom, block) ==
    LET prev_total == s.vortex_state.total_atoms * s.vortex_state.average_coherence
        total_atoms == s.vortex_state.total_atoms + 1
        new_avg == (prev_total + atom.coherence_score) \div total_atoms
    IN  [s EXCEPT !.vortex_state.total_atoms = total_atoms,
                  !.vortex_state.average_coherence = AsU8(new_avg),
                  !.vortex_state.last_update = to_string(block.timestamp)]

\* the snap-in check with > for >=
snap_in_strict(s, atom) ==
    IF atom.coherence_score > s.snap_in_threshold
    THEN [s EXCEPT !.vortex_state.snap_in_count = @ + 1]
    ELSE s

\* the snap-in check at the end of record_atom
snap_in(s, atom) ==
    IF atom.coherence_score >= s.snap_in_threshold
    THEN [s EXCEPT !.vortex_state.snap_in_count = @ + 1]
    ELSE s

\* the receipt: format!("{}:{}", env::block_height(), atom_tag)
Receipt(block, atom_tag) == <<to_string(block.height), ":", atom_tag>>

\* the store of record_atom, at "Store ATOM"
store_atom(s, atom) == [s EXCEPT !.atoms = Insert(s.atoms, atom.atom_tag, atom)]

\* record_atom without the check of the tag
record_atom_any_tag(s, atom, block) ==
    IF ~(atom.coherence_score <= 100) THEN Panic(s, "Invalid coherence score")
    ELSE Ok(snap_in(update_vortex_state(add_to_contributor_trail(update_repo_state(
                store_atom(s, atom), atom), atom), atom, block), atom),
            Receipt(block, atom.atom_tag))

\* record_atom that returns at once when the record is already stored
record_atom_once(s, atom, block) ==
    IF ~(atom.coherence_score <= 100) THEN Panic(s, "Invalid coherence score")
    ELSE IF atom.atom_tag = "" THEN Panic(s, "ATOM tag required")
    ELSE IF Get(s.atoms, atom.atom_tag) = Some(atom)
         THEN Ok(s, Receipt(block, atom.atom_tag))
         ELSE Ok(snap_in(update_vortex_state(add_to_contributor_trail(update_repo_state(
                     store_atom(s, atom), atom), atom), atom, block), atom),
                 Receipt(block, atom.atom_tag))

\* record_atom that keeps the record a tag already has
record_atom_keep_first(s, atom, block) ==
    IF ~(atom.coherence_score <= 100) THEN Panic(s, "Invalid coherence score")
    ELSE IF atom.atom_tag = "" THEN Panic(s, "ATOM tag required")
    ELSE Ok(snap_in(update_vortex_state(add_to_contributor_trail(update_repo_state(
                IF atom.atom_tag \in DOMAIN s.atoms THEN s ELSE store_atom(s, atom),
                atom), atom), atom, block), atom),
            Receipt(block, atom.atom_tag))

\* record_atom that counts a tag in the global state only when it is new
record_atom_new_tags(s, atom, block) ==
    IF ~(atom.coherence_score <= 100) THEN Panic(s, "Invalid coherence score")
    ELSE IF atom.atom_tag = "" THEN Panic(s, "ATOM tag required")
    ELSE LET s1 == store_atom(s, atom)
             s2 == update_repo_state(s1, atom)
             s3 == add_to_contributor_trail(s2, atom)
             s4 == IF atom.atom_tag \in DOMAIN s.atoms THEN s3
                   ELSE update_vortex_state(s3, atom, block)
             s5 == snap_in(s4, atom)
         IN  Ok(s5, Receipt(block, atom.atom_tag))

record_atom(s, atom, block) ==
    IF ~(atom.coherence_score <= 100) THEN Panic(s, "Invalid coherence score")
    ELSE IF atom.atom_tag = "" THEN Panic(s, "ATOM tag required")
    ELSE LET s1 == store_atom(s, atom)
             s2 == update_repo_state(s1, atom)
             s3 == add_to_contributor_trail(s2, atom)
             s4 == update_vortex_state(s3, atom, block)
             s5 == snap_in(s4, atom)
         IN  Ok(s5, Receipt(block, atom.atom_tag))

\* batch_record_atoms that passes over a rejected record and goes on
RECURSIVE batch_record_atoms_partial(_, _, _)
batch_record_atoms_partial(s, atoms, block) ==
    IF atoms = <<>> THEN Ok(s, <<>>)
    ELSE LET first == record_atom(s, Head(atoms), block)
         IN  IF first.panic # "" THEN batch_record_atoms_partial(s, Tail(atoms), block)
             ELSE LET rest == batch_record_atoms_partial(first.state, Tail(atoms), block)
                  IN  Ok(rest.state, <<first.ret>> \o rest.ret)

\* batch_record_atoms that applies the records from the last to the first
RECURSIVE batch_record_atoms_backwards(_, _, _)
batch_record_atoms_backwards(s, atoms, block) ==
    IF atoms = <<>> THEN Ok(s, <<>>)
    ELSE LET rest == batch_record_atoms_backwards(s, Tail(atoms), block)
         IN  IF rest.panic # "" THEN rest
             ELSE LET first == record_atom(rest.state, Head(atoms), block)
                  IN  IF first.panic # "" THEN first
                      ELSE Ok(first.state, <<first.ret>> \o rest.ret)

\* atoms.into_iter().map(|atom| self.record_atom(atom)).collect(): the records
\* in input order; a panic ends the call at the record that raised it
RECURSIVE batch_record_atoms(_, _, _)
batch_record_atoms(s, atoms, block) ==
    IF atoms = <<>> THEN Ok(s, <<>>)
    ELSE LET first == record_atom(s, Head(atoms), block)
         IN  IF first.panic # "" THEN first
             ELSE LET rest == batch_record_atoms(first.state, Tail(atoms), block)
                  IN  IF rest.panic # "" THEN rest
                      ELSE Ok(rest.state, <<first.ret>> \o rest.ret)

\* update_coherence that starts an aggregate for a repo that has none
update_coherence_or_insert(s, predecessor, repo, coherence) ==
    IF predecessor # s.owner THEN Panic(s, "Only owner can update coherence directly")
    ELSE LET found == Get(s.repos, repo)
             state == IF found # None THEN found[1]
                      ELSE [repo |-> repo, atom_count |-> 0, total_coherence |-> 0,
                            average_coherence |-> 0, last_snap_in |-> None]
         IN  Ok([s EXCEPT !.repos =
                    Insert(s.repos, repo, [state EXCEPT !.average_coherence = coherence])],
                None)

update_coherence(s, predecessor, repo, coherence) ==
    IF predecessor # s.owner THEN Panic(s, "Only owner can update coherence directly")
    ELSE LET found == Get(s.repos, repo)
         IN  IF found # None
             THEN Ok([s EXCEPT !.repos =
                        Insert(s.repos, repo, [found[1] EXCEPT !.average_coherence = coherence])],
                     None)
             ELSE Ok(s, None)

\* set_snap_in_threshold with the two checks in the other order
set_snap_in_threshold_value_first(s, predecessor, threshold) ==
    IF ~(threshold <= 100) THEN Panic(s, "Invalid threshold")
    ELSE IF predecessor # s.owner THEN Panic(s, "Only owner")
    ELSE Ok([s EXCEPT !.snap_in_threshold = threshold], None)

set_snap_in_threshold(s, predecessor, threshold) ==
    IF predecessor # s.owner THEN Panic(s, "Only owner")
    ELSE IF ~(threshold <= 100) THEN Panic(s, "Invalid threshold")
    ELSE Ok([s EXCEPT !.snap_in_threshold = threshold], None)

\* what a function call leaves in storage: the state the method reached, or
\* the state before the call when the method panicked
Commit(before, outcome) == IF outcome.panic # "" THEN before ELSE outcome.state

-----------------------------------------------------------------------------
(* View methods *)

get_atom(s, atom_tag) == Get(s.atoms, atom_tag)

get_vortex_state(s) == s.vortex_state

get_repo_state(s, repo) == Get(s.repos, repo)

\* the loop of get_repo_atoms over the entries of `atoms`, visited in `order`
RECURSIVE ScanRepo(_, _, _, _, _)
ScanRepo(s, repo, limit, order, result) ==
    IF order = <<>> THEN result
    ELSE LET atom == s.atoms[Head(order)]
         IN  ScanRepo(s, repo, limit, Tail(order),
                      IF atom.repo = repo /\ Len(result) < limit
                      THEN Append(result, atom)
                      ELSE result)

\* get_repo_atoms that lets one record more through
get_repo_atoms_one_more(s, repo, limit, order) == ScanRepo(s, repo, limit + 1, order, <<>>)

\* get_repo_atoms(repo, limit); `order` is the order in which atoms.iter()
\* yields the tags, which the contract does not fix
get_repo_atoms(s, repo, limit, order) == ScanRepo(s, repo, limit, order, <<>>)

\* the orders in which an iterator can yield the elements of S
RECURSIVE Orders(_)
Orders(S) ==
    IF S = {} THEN {<<>>}
    ELSE UNION {{<<x>> \o rest : rest \in Orders(S \ {x})} : x \in S}

check_ecosystem_snap_in(s) ==
    <<s.vortex_state.average_coherence >= s.snap_in_threshold,
      s.vortex_state.average_coherence>>

\* tags.iter().filter_map(|tag| self.atoms.get(&tag)).collect()
RECURSIVE ResolveTags(_, _)
ResolveTags(s, tags) ==
    IF tags = <<>> THEN <<>>
    ELSE Get(s.atoms, Head(tags)) \o ResolveTags(s, Tail(tags))

get_contributor_atoms(s, contributor) ==
    LET found == Get(s.contributor_atoms, contributor)
    IN  IF found # None THEN ResolveTags(s, found[1]) ELSE <<>>

RECURSIVE SumScores(_)
SumScores(atoms) ==
    IF atoms = <<>> THEN 0 ELSE Head(atoms).coherence_score + SumScores(Tail(atoms))

RECURSIVE FlatMarkers(_)
FlatMarkers(atoms) ==
    IF atoms = <<>> THEN <<>> ELSE Head(atoms).markers \o FlatMarkers(Tail(atoms))

\* get_attribution with the mean read from the global aggregate
get_attribution_cached(s, contributor) ==
    LET found == Get(s.contributor_atoms, contributor)
    IN  IF found # None
        THEN LET atoms == ResolveTags(s, found[1])
                 count == Len(atoms)
                 avg_coherence == IF count > 0 THEN s.vortex_state.average_coherence ELSE 0
             IN  <<count, avg_coherence, FlatMarkers(atoms)>>
        ELSE <<0, 0, <<>>>>

get_attribution(s, contributor) ==
    LET found == Get(s.contributor_atoms, contributor)
    IN  IF found # None
        THEN LET atoms == ResolveTags(s, found[1])
                 count == Len(atoms)
                 avg_coherence == IF count > 0 THEN AsU8(SumScores(atoms) \div count) ELSE 0
             IN  <<count, avg_coherence, FlatMarkers(atoms)>>
        ELSE <<0, 0, <<>>>>

-----------------------------------------------------------------------------
(* History *)

Entry(atom, threshold) == [atom |-> atom, threshold |-> threshold]

RECURSIVE Entries(_, _)
Entries(atoms, threshold) ==
    IF atoms = <<>> THEN <<>>
    ELSE <<Entry(Head(atoms), threshold)>> \o Entries(Tail(atoms), threshold)

\* the sequences over S of length at most n
RECURSIVE SeqsUpTo(_, _)
SeqsUpTo(S, n) ==
    IF n = 0 THEN {<<>>}
    ELSE LET shorter == SeqsUpTo(S, n - 1)
         IN  shorter \cup {Append(q, x) : q \in {r \in shorter : Len(r) = n - 1}, x \in S}

-----------------------------------------------------------------------------------------------------------------------------------------------------
(* Actions: one function call each *)

\* the classes of failure, by panic message
ValidationError == {"Invalid coherence score", "ATOM tag required", "Invalid threshold"}
AuthorizationError == {"Only owner can update coherence directly", "Only owner"}

RECURSIVE ReposOf(_)
ReposOf(atoms) == IF atoms = <<>> THEN {} ELSE {Head(atoms).repo} \cup ReposOf(Tail(atoms))

Init ==
    /\ self = new(Owner, DeployBlock)
    /\ call = [method |-> "new", predecessor |-> None, args |-> <<Owner>>,
               panic |-> "", ret |-> None, before |-> None]
    /\ log = <<>>
    /\ overridden = {}

\* record_atom(atom), by any account
RecordAtomOf(atom, block) ==
    LET outcome == record_atom(self, atom, block) IN
    /\ self' = Commit(self, outcome)
    /\ call' = [method |-> "record_atom", predecessor |-> None,
                args |-> <<atom>>, panic |-> outcome.panic, ret |-> outcome.ret,
                before |-> IF outcome.panic = "" THEN get_repo_state(self, atom.repo)
                           ELSE None]
    /\ log' = IF outcome.panic = ""
              THEN Append(log, Entry(atom, self.snap_in_threshold))
              ELSE log
    /\ overridden' = IF outcome.panic = "" THEN overridden \ {atom.repo} ELSE overridden

RecordAtom ==
    \E atom \in AtomInputs, block \in Blocks :
        /\ Len(log) < MaxAtoms
        /\ RecordAtomOf(atom, block)

\* batch_record_atoms(atoms), by any account
BatchRecordAtoms ==
    \E atoms \in SeqsUpTo(BatchAtoms, MaxBatch), block \in Blocks :
        LET outcome == batch_record_atoms(self, atoms, block) IN
        /\ Len(log) + Len(atoms) <= MaxAtoms
        /\ self' = Commit(self, outcome)
        /\ call' = [method |-> "batch_record_atoms", predecessor |-> None,
                    args |-> <<atoms>>, panic |-> outcome.panic, ret |-> outcome.ret,
                    before |-> None]
        /\ log' = IF outcome.panic = ""
                  THEN log \o Entries(atoms, self.snap_in_threshold)
                  ELSE log
        /\ overridden' = IF outcome.panic = "" THEN overridden \ ReposOf(atoms)
                         ELSE overridden

\* update_coherence(repo, coherence), by the account `predecessor`
UpdateCoherence ==
    \E predecessor \in Callers, repo \in Repos, coherence \in CoherenceInputs :
        LET outcome == update_coherence(self, predecessor, repo, coherence) IN
        /\ self' = Commit(self, outcome)
        /\ call' = [method |-> "update_coherence", predecessor |-> Some(predecessor),
                    args |-> <<repo, coherence>>, panic |-> outcome.panic,
                    ret |-> outcome.ret, before |-> None]
        /\ overridden' = IF outcome.panic = "" /\ repo \in DOMAIN self.repos
                         THEN overridden \cup {repo}
                         ELSE overridden
        /\ UNCHANGED log

\* set_snap_in_threshold(threshold), by the account `predecessor`
SetSnapInThreshold ==
    \E predecessor \in Callers, threshold \in ThresholdInputs :
        LET outcome == set_snap_in_threshold(self, predecessor, threshold) IN
        /\ self' = Commit(self, outcome)
        /\ call' = [method |-> "set_snap_in_threshold", predecessor |-> Some(predecessor),
                    args |-> <<threshold>>, panic |-> outcome.panic,
                    ret |-> outcome.ret, before |-> None]
        /\ UNCHANGED <<log, overridden>>

Next ==
    \/ RecordAtom
    \/ BatchRecordAtoms
    \/ UpdateCoherence
    \/ SetSnapInThreshold

Spec == Init /\ [][Next]_vars

-----------------------------------------------------------------------------
(* The scenario of tests::test_snap_in_detection: records "ATOM-TEST-i",     *)
(* i = 0, 1, ..., all of one score, submitted to a new contract             *)

MaxTestAtoms == 5

TestTags == <<"ATOM-TEST-0", "ATOM-TEST-1", "ATOM-TEST-2", "ATOM-TEST-3",
              "ATOM-TEST-4", "ATOM-TEST-5">>
TestScores == {60, 80}

RecordTestAtom ==
    \E repo \in Repos, score \in TestScores, contributor \in Contributors, block \in Blocks :
        /\ Len(log) < MaxTestAtoms
        /\ Len(log) < Len(TestTags)
        /\ log # <<>> => score = log[1].atom.coherence_score
        /\ RecordAtomOf(ATOMOnChain(TestTags[Len(log) + 1], repo, score, contributor, APayload),
                        block)

SnapInNext ==
    \/ RecordTestAtom
    \/ SetSnapInThreshold

SnapInSpec == Init /\ [][SnapInNext]_vars

-----------------------------------------------------------------------------
(* Records "ATOM-TEST-i" of any score and repo, one after the other: the     *)
(* stores that the scan of get_repo_atoms is checked on                     *)

\* the u32 argument `limit` of get_repo_atoms
LimitInputs == {0, 2, 9}

RecordScanAtom ==
    \E repo \in Repos, score \in TestScores, block \in Blocks :
        /\ Len(log) < MaxTestAtoms
        /\ Len(log) < Len(TestTags)
        /\ RecordAtomOf(ATOMOnChain(TestTags[Len(log) + 1], repo, score, "test", APayload),
                        block)

ScanNext == RecordScanAtom

ScanSpec == Init /\ [][ScanNext]_vars

-----------------------------------------------------------------------------
(* Records of "ATOM-1" with scores at the ends of the u8 and of the accepted *)
(* range: the averages that the narrowing casts are checked on              *)

RangeScores == {0, 99, 100, 255}

RecordRangeAtom ==
    \E repo \in Repos, score \in RangeScores, block \in Blocks :
        /\ Len(log) < MaxTestAtoms
        /\ RecordAtomOf(ATOMOnChain("ATOM-1", repo, score, "test", APayload), block)

RangeNext == RecordRangeAtom

RangeSpec == Init /\ [][RangeNext]_vars

-----------------------------------------------------------------------------
(* Properties *)

Rejected(atom) == atom.coherence_score > 100 \/ atom.atom_tag = ""

RECURSIVE AnyRejected(_)
AnyRejected(atoms) ==
    IF atoms = <<>> THEN FALSE ELSE Rejected(Head(atoms)) \/ AnyRejected(Tail(atoms))

\* C1: a record_atom call whose coherence_score is over 100 or whose atom_tag
\* is empty fails with a validation error and leaves the whole contract state
\* (records, repo aggregates, trails, global aggregate, threshold) as it was.
C1_InvalidRecordLeavesState ==
    [][ (call'.method = "record_atom" /\ Rejected(call'.args[1]))
            => /\ call'.panic \in ValidationError
               /\ self' = self ]_vars

\* a record with score 101 was rejected by a contract that holds records
C1_Witness ==
    /\ call.method = "record_atom"
    /\ call.args[1].coherence_score = 101
    /\ call.args[1].atom_tag # ""
    /\ call.panic \in ValidationError
    /\ self.vortex_state.total_atoms >= 2
    /\ DOMAIN self.repos = Repos

Consistent(state) ==
    state.atom_count > 0 =>
        state.average_coherence = state.total_coherence \div state.atom_count

\* C2, as claimed: in every reachable state every repo aggregate with
\* atom_count > 0 has average_coherence = floor(total_coherence / atom_count).
C2_AverageAlwaysFloor ==
    \A repo \in DOMAIN self.repos : Consistent(self.repos[repo])

\* C2, amended: the same, for every repo whose average the owner has not
\* overwritten with update_coherence since the last submission accepted for it.
C2_AverageFloorUnlessOverridden ==
    \A repo \in DOMAIN self.repos :
        /\ self.repos[repo].atom_count > 0
        /\ repo \notin overridden => Consistent(self.repos[repo])

\* a repo with two records whose mean is not a whole number, next to a
\* repo whose average is overridden
C2_Witness ==
    \E repo \in DOMAIN self.repos :
        /\ repo \notin overridden
        /\ self.repos[repo].atom_count = 2
        /\ self.repos[repo].total_coherence = 155
        /\ self.repos[repo].average_coherence = 77
        /\ overridden # {}

Crossings == {i \in 1..Len(log) : log[i].atom.coherence_score >= log[i].threshold}

\* C3: snap_in_count is the number of accepted submissions whose score was
\* >= the threshold in force when they were submitted; no call decreases it,
\* and set_snap_in_threshold and update_coherence leave it as it is.
C3_SnapInCount ==
    /\ [](self.vortex_state.snap_in_count = Cardinality(Crossings))
    /\ [][ /\ self'.vortex_state.snap_in_count >= self.vortex_state.snap_in_count
           /\ call'.method \in {"set_snap_in_threshold", "update_coherence"}
                => self'.vortex_state.snap_in_count = self.vortex_state.snap_in_count ]_vars

\* the threshold was raised after a record of score 70 was counted under the
\* threshold 70, and a later record of score 70 was not counted
C3_Witness ==
    /\ Len(log) = 3
    /\ log[1].atom.coherence_score = 70 /\ log[1].threshold = 70
    /\ log[3].atom.coherence_score = 70 /\ log[3].threshold = 80
    /\ self.vortex_state.snap_in_count = 2
    /\ call.method = "update_coherence" /\ call.panic = ""

\* C4: batch_record_atoms is all-or-nothing: when a record of the batch is
\* rejected, at whatever position, the call fails with a validation error and
\* the contract state is as before the call, the records before the rejected
\* one included.
C4_BatchAllOrNothing ==
    [][ (call'.method = "batch_record_atoms" /\ AnyRejected(call'.args[1]))
            => /\ call'.panic \in ValidationError
               /\ self' = self ]_vars

\* a batch whose second record is rejected, after an accepted first one
C4_Witness ==
    /\ call.method = "batch_record_atoms"
    /\ Len(call.args[1]) = 2
    /\ ~Rejected(call.args[1][1])
    /\ Rejected(call.args[1][2])
    /\ call.panic \in ValidationError
    /\ call.args[1][1].atom_tag \notin DOMAIN self.atoms
    /\ self.vortex_state.total_atoms = 1

\* C5: set_snap_in_threshold replaces snap_in_threshold exactly when the
\* caller is the owner and the value is <= 100; another caller gets an
\* authorization error whatever the value, the owner with a value over 100
\* a validation error, both without any change of state; snap_in_threshold
\* is always in 0..100.
C5_SetThreshold ==
    /\ [](self.snap_in_threshold \in 0..100)
    /\ [][ call'.method = "set_snap_in_threshold" =>
            LET caller == call'.predecessor[1]
                value == call'.args[1]
            IN  /\ caller # self.owner
                    => call'.panic \in AuthorizationError /\ self' = self
                /\ caller = self.owner /\ value > 100
                    => call'.panic \in ValidationError /\ self' = self
                /\ caller = self.owner /\ value <= 100
                    => /\ call'.panic = ""
                       /\ self' = [self EXCEPT !.snap_in_threshold = value] ]_vars

\* another account than the owner was refused the value 101, after the owner
\* had set the threshold to 80
C5_Witness ==
    /\ call.method = "set_snap_in_threshold"
    /\ call.predecessor # Some(self.owner)
    /\ call.args[1] = 101
    /\ call.panic \in AuthorizationError
    /\ self.snap_in_threshold = 80

\* C6: update_coherence by another account than the owner fails with an
\* authorization error and changes nothing; by the owner for a repo without
\* aggregate it changes nothing; by the owner for an existing repo it changes
\* that repo's average_coherence and nothing else.
C6_UpdateCoherenceFrame ==
    [][ call'.method = "update_coherence" =>
            LET caller == call'.predecessor[1]
                repo == call'.args[1]
                coherence == call'.args[2]
            IN  /\ caller # self.owner
                    => call'.panic \in AuthorizationError /\ self' = self
                /\ caller = self.owner /\ repo \notin DOMAIN self.repos
                    => call'.panic = "" /\ self' = self
                /\ caller = self.owner /\ repo \in DOMAIN self.repos
                    => /\ call'.panic = ""
                       /\ self' = [self EXCEPT !.repos[repo].average_coherence = coherence] ]_vars

\* the owner overwrote the average of one of two repos
C6_Witness ==
    /\ call.method = "update_coherence"
    /\ call.predecessor = Some(self.owner)
    /\ call.panic = ""
    /\ DOMAIN self.repos = Repos
    /\ self.repos[call.args[1]].average_coherence = call.args[2]
    /\ ~Consistent(self.repos[call.args[1]])
    /\ \A repo \in Repos \ {call.args[1]} : Consistent(self.repos[repo])

\* a step that resubmits a stored record: same tag, same fields
Retry ==
    /\ call'.method = "record_atom"
    /\ call'.panic = ""
    /\ get_atom(self, call'.args[1].atom_tag) = Some(call'.args[1])

\* C7, as claimed: resubmitting a record already accepted, with the same tag
\* and the same fields, leaves the repo aggregate and the global total_atoms,
\* average_coherence and snap_in_count as they were.
C7_RetryNoSideEffect ==
    [][ Retry =>
            LET atom == call'.args[1] IN
            /\ self'.repos[atom.repo] = self.repos[atom.repo]
            /\ self'.vortex_state.total_atoms = self.vortex_state.total_atoms
            /\ self'.vortex_state.average_coherence = self.vortex_state.average_coherence
            /\ self'.vortex_state.snap_in_count = self.vortex_state.snap_in_count ]_vars

\* C7, amended: such a resubmission leaves the record store as it was and is
\* counted as one more submission: the repo's atom_count grows by 1 and its
\* total_coherence by the score, with the average recomputed; total_atoms
\* grows by 1 and the global average is updated; snap_in_count grows by 1 when
\* the score is >= snap_in_threshold; the contributor's trail gains an entry.
C7_RetryCountedAgain ==
    [][ Retry =>
            LET atom == call'.args[1]
                repo == self.repos[atom.repo]
                vortex == self.vortex_state
            IN  /\ self'.atoms = self.atoms
                /\ self'.repos[atom.repo].atom_count = repo.atom_count + 1
                /\ self'.repos[atom.repo].total_coherence =
                        repo.total_coherence + atom.coherence_score
                /\ Consistent(self'.repos[atom.repo])
                /\ self'.vortex_state.total_atoms = vortex.total_atoms + 1
                /\ self'.vortex_state.average_coherence =
                        (vortex.total_atoms * vortex.average_coherence + atom.coherence_score)
                            \div (vortex.total_atoms + 1)
                /\ self'.vortex_state.snap_in_count =
                        vortex.snap_in_count
                            + (IF atom.coherence_score >= self.snap_in_threshold THEN 1 ELSE 0)
                /\ self'.contributor_atoms[atom.contributor] =
                        Append(self.contributor_atoms[atom.contributor], atom.atom_tag) ]_vars

\* a record was submitted twice in a row and the store holds it once
C7_Witness ==
    /\ Len(log) = 2
    /\ log[1].atom = log[2].atom
    /\ call.method = "record_atom" /\ call.panic = ""
    /\ DOMAIN self.atoms = {log[1].atom.atom_tag}
    /\ self.repos[log[1].atom.repo].atom_count = 2
    /\ self.vortex_state.total_atoms = 2

MaxOf(S) == CHOOSE x \in S : \A y \in S : y <= x

Submissions(tag) == {i \in 1..Len(log) : log[i].atom.atom_tag = tag}

\* C8: get_atom(tag) returns the record of the latest accepted submission of
\* the tag, with all its fields, and nothing only when no submission of the
\* tag was accepted: a record is replaced as a whole and never deleted.
C8_GetAtomLatest ==
    \A tag \in Tags \cup {""} \cup DOMAIN self.atoms :
        IF Submissions(tag) = {}
        THEN get_atom(self, tag) = None
        ELSE get_atom(self, tag) = Some(log[MaxOf(Submissions(tag))].atom)

\* a tag was resubmitted with another repo, score, contributor and payload,
\* and a governance call followed
C8_Witness ==
    /\ Len(log) = 3
    /\ log[1].atom.atom_tag = log[3].atom.atom_tag
    /\ log[1].atom.repo # log[3].atom.repo
    /\ log[1].atom.coherence_score # log[3].atom.coherence_score
    /\ log[1].atom.contributor # log[3].atom.contributor
    /\ log[1].atom.markers # log[3].atom.markers
    /\ log[2].atom.atom_tag # log[1].atom.atom_tag
    /\ get_atom(self, log[1].atom.atom_tag) = Some(log[3].atom)
    /\ call.method = "update_coherence" /\ call.panic = ""

\* C9: on a new contract with threshold t, after n >= 1 accepted submissions
\* of distinct tags that all carry the score s, the global average is s,
\* check_ecosystem_snap_in returns (s >= t, s), and snap_in_count is n when
\* s >= t and 0 otherwise.
C9_UniformScore ==
    ( /\ log # <<>>
      /\ \A i \in 1..Len(log) :
            /\ log[i].atom.coherence_score = log[1].atom.coherence_score
            /\ log[i].threshold = self.snap_in_threshold
            /\ \A j \in 1..Len(log) : i # j => log[i].atom.atom_tag # log[j].atom.atom_tag )
    => LET s == log[1].atom.coherence_score
           t == self.snap_in_threshold
           n == Len(log)
       IN  /\ self.vortex_state.average_coherence = s
           /\ check_ecosystem_snap_in(self) = <<s >= t, s>>
           /\ self.vortex_state.snap_in_count = IF s >= t THEN n ELSE 0

\* five records of score 80 under the threshold 70
C9_Witness ==
    /\ Len(log) = 5
    /\ \A i \in 1..5 : log[i].atom.coherence_score = 80 /\ log[i].threshold = 70
    /\ self.snap_in_threshold = 70
    /\ self.vortex_state.snap_in_count = 5
    /\ check_ecosystem_snap_in(self) = <<TRUE, 80>>

\* the entries 1..k of a trail that resolve to a stored record
Resolved(trail, k) == {i \in 1..k : trail[i] \in DOMAIN self.atoms}

RECURSIVE ScoreSum(_, _)
ScoreSum(trail, k) ==
    IF k = 0 THEN 0
    ELSE ScoreSum(trail, k - 1)
            + (IF k \in Resolved(trail, k) THEN self.atoms[trail[k]].coherence_score ELSE 0)

RECURSIVE MarkersOf(_, _)
MarkersOf(trail, k) ==
    IF k = 0 THEN <<>>
    ELSE MarkersOf(trail, k - 1)
            \o (IF k \in Resolved(trail, k) THEN self.atoms[trail[k]].markers ELSE <<>>)

\* C10: get_attribution(contributor) is (0, 0, []) for a contributor without
\* trail; otherwise (count, mean, markers): the number of trail entries that
\* resolve to a stored record, the floor of the mean of the scores those
\* records have now, and their markers, concatenated in trail order.
C10_Attribution ==
    \A contributor \in Contributors \cup {"nobody"} :
        IF contributor \notin DOMAIN self.contributor_atoms
        THEN get_attribution(self, contributor) = <<0, 0, <<>>>>
        ELSE LET trail == self.contributor_atoms[contributor]
                 count == Cardinality(Resolved(trail, Len(trail)))
             IN  get_attribution(self, contributor) =
                    <<count,
                      IF count > 0 THEN ScoreSum(trail, Len(trail)) \div count ELSE 0,
                      MarkersOf(trail, Len(trail))>>

\* a contributor with two records, scoring 70 and 85, of which the first was
\* stored again by the other contributor; the other contributor has the mean
\* of that one record
C10_Witness ==
    \E c \in Contributors, d \in Contributors :
        /\ c # d
        /\ Len(log) = 3
        /\ DOMAIN self.contributor_atoms = {c, d}
        /\ self.contributor_atoms[c] = <<log[1].atom.atom_tag, log[2].atom.atom_tag>>
        /\ log[1].atom.atom_tag # log[2].atom.atom_tag
        /\ log[3].atom.atom_tag = log[1].atom.atom_tag
        /\ log[3].atom.contributor = d
        /\ log[1].atom.coherence_score = 85
        /\ log[2].atom.coherence_score = 85
        /\ log[3].atom.coherence_score = 70
        /\ get_attribution(self, c)[1] = 2
        /\ get_attribution(self, c)[2] = 77
        /\ get_attribution(self, c)[3] = log[3].atom.markers \o log[2].atom.markers
        /\ get_attribution(self, d) = <<1, 70, log[3].atom.markers>>

Min(a, b) == IF a <= b THEN a ELSE b

\* the stored records of a repo
RecordsOf(repo) == {self.atoms[tag] : tag \in {t \in DOMAIN self.atoms : self.atoms[t].repo = repo}}

\* C11: get_repo_atoms(repo, limit) returns exactly min(limit, k) records,
\* k being the number of stored records of the repo; each returned record is
\* a stored record of that repo and none is returned twice, in whatever order
\* the store is iterated.
C11_RepoAtoms ==
    \A order \in Orders(DOMAIN self.atoms) :
        \A repo \in Repos, limit \in LimitInputs :
            LET result == get_repo_atoms(self, repo, limit, order)
            IN  /\ Len(result) = Min(limit, Cardinality(RecordsOf(repo)))
                /\ \A i \in 1..Len(result) : result[i] \in RecordsOf(repo)
                /\ \A i, j \in 1..Len(result) : i # j => result[i] # result[j]

\* five stored records of "QDI", of which limit 2 returns two
C11_Witness ==
    /\ Cardinality(RecordsOf("QDI")) = 5
    /\ \E order \in Orders(DOMAIN self.atoms) :
            LET result == get_repo_atoms(self, "QDI", 2, order)
            IN  Len(result) = 2 /\ result[1].repo = "QDI" /\ result[2].repo = "QDI"

\* the accepted submissions to a repo, and the sum of the scores of those
\* among the first k
SubmissionsTo(repo) == {i \in 1..Len(log) : log[i].atom.repo = repo}

RECURSIVE RepoScoreSum(_, _)
RepoScoreSum(repo, k) ==
    IF k = 0 THEN 0
    ELSE RepoScoreSum(repo, k - 1)
            + (IF log[k].atom.repo = repo THEN log[k].atom.coherence_score ELSE 0)

\* C12: right after an accepted record_atom for a repo, the repo's atom_count
\* is the number of accepted submissions to it, its total_coherence the sum of
\* their scores and its average_coherence the floor of their quotient,
\* whatever update_coherence wrote before: the override is discarded.
C12_OverrideDiscarded ==
    (call.method = "record_atom" /\ call.panic = "") =>
        LET repo == call.args[1].repo
            state == self.repos[repo]
        IN  /\ state.atom_count = Cardinality(SubmissionsTo(repo))
            /\ state.total_coherence = RepoScoreSum(repo, Len(log))
            /\ state.average_coherence =
                    RepoScoreSum(repo, Len(log)) \div Cardinality(SubmissionsTo(repo))

\* a record accepted for a repo whose average stood overwritten at 42 with
\* two records counted; the average is again the floor mean of three
C12_Witness ==
    /\ call.method = "record_atom" /\ call.panic = ""
    /\ call.before # None
    /\ call.before[1].atom_count = 2
    /\ call.before[1].average_coherence = 42
    /\ call.before[1].total_coherence \div 2 # 42
    /\ self.repos[call.args[1].repo].atom_count = 3
    /\ self.repos[call.args[1].repo].average_coherence = 80
    /\ self.repos[call.args[1].repo].total_coherence = 240

\* the records a step submitted and the contract accepted
Accepted(c) ==
    IF c.panic # "" THEN <<>>
    ELSE IF c.method = "record_atom" THEN <<c.args[1]>>
    ELSE IF c.method = "batch_record_atoms" THEN c.args[1]
    ELSE <<>>

\* the count and the average after the rounded-average formula is applied to
\* one score after the other
RECURSIVE Rounded(_, _, _)
Rounded(total, average, atoms) ==
    IF atoms = <<>> THEN <<total, average>>
    ELSE Rounded(total + 1,
                 (average * total + Head(atoms).coherence_score) \div (total + 1),
                 Tail(atoms))

\* C13: every accepted submission updates the global aggregate by the
\* rounded-average formula: total_atoms grows by 1 and average_coherence
\* becomes floor((average_coherence * total_atoms + score) / (total_atoms + 1));
\* the first accepted submission sets average_coherence to its score.
C13_RoundedAverage ==
    [][ Accepted(call') # <<>> =>
            /\ <<self'.vortex_state.total_atoms, self'.vortex_state.average_coherence>>
                    = Rounded(self.vortex_state.total_atoms,
                              self.vortex_state.average_coherence, Accepted(call'))
            /\ (self.vortex_state.total_atoms = 0 /\ Len(Accepted(call')) = 1)
                    => self'.vortex_state.average_coherence
                            = Accepted(call')[1].coherence_score ]_vars

\* scores 70, 85, 85, one call each: the average went 70, 77, 79
C13_Witness ==
    /\ Len(log) = 3
    /\ log[1].atom.coherence_score = 70
    /\ log[2].atom.coherence_score = 85
    /\ log[3].atom.coherence_score = 85
    /\ call.method = "record_atom" /\ call.panic = ""
    /\ self.vortex_state.total_atoms = 3
    /\ self.vortex_state.average_coherence = 79

\* the sum of the scores of the first k accepted submissions
RECURSIVE ScoreTotal(_)
ScoreTotal(k) == IF k = 0 THEN 0 ELSE ScoreTotal(k - 1) + log[k].atom.coherence_score

ExactMean == ScoreTotal(Len(log)) \div Len(log)

\* all accepted submissions went to one repo, whose average stands as computed
OneRepo(repo) ==
    /\ log # <<>>
    /\ \A i \in 1..Len(log) : log[i].atom.repo = repo
    /\ repo \notin overridden

\* C14: the global average drifts from the exact mean while a repo's average
\* does not: when all submissions went to one repo, the repo's average is the
\* floor of the exact mean of all scores, and after the scores 70, 85, 85 the
\* global average is 79, which is not that floor, 80.
C14_GlobalDrift ==
    \A repo \in Repos :
        OneRepo(repo) =>
            /\ self.repos[repo].average_coherence = ExactMean
            /\ (Len(log) = 3 /\ log[1].atom.coherence_score = 70
                    /\ log[2].atom.coherence_score = 85 /\ log[3].atom.coherence_score = 85)
                => /\ self.vortex_state.average_coherence = 79
                   /\ self.vortex_state.average_coherence # ExactMean

\* the scores 70, 85, 85 submitted to "QDI": global average 79, repo average
\* and exact floor mean 80
C14_Witness ==
    /\ OneRepo("QDI")
    /\ Len(log) = 3
    /\ ScoreTotal(3) = 240
    /\ self.vortex_state.total_atoms = 3
    /\ self.vortex_state.average_coherence # ExactMean
    /\ self.repos["QDI"].average_coherence = ExactMean

\* the state after one record_atom call per record, in the order of `atoms`
RECURSIVE Successively(_, _, _)
Successively(s, atoms, block) ==
    IF atoms = <<>> THEN s
    ELSE Successively(Commit(s, record_atom(s, Head(atoms), block)), Tail(atoms), block)

\* C15: a batch_record_atoms call that succeeds ends in the state that one
\* record_atom call per record, in input order, ends in, and returns one
\* receipt per record, the i-th with the tag of the i-th record; of two
\* records with one tag the later one is the stored one.
C15_BatchAsSuccessiveCalls ==
    [][ (call'.method = "batch_record_atoms" /\ call'.panic = "") =>
            LET atoms == call'.args[1] IN
            /\ \E block \in Blocks : self' = Successively(self, atoms, block)
            /\ Len(call'.ret) = Len(atoms)
            /\ \A i \in 1..Len(atoms) :
                /\ call'.ret[i][Len(call'.ret[i])] = atoms[i].atom_tag
                /\ (\A j \in (i + 1)..Len(atoms) : atoms[j].atom_tag # atoms[i].atom_tag)
                        => get_atom(self', atoms[i].atom_tag) = Some(atoms[i]) ]_vars

\* a batch of two different records with one tag and one repo, both crossing
\* the threshold: the second is stored and its timestamp is the last_snap_in
C15_Witness ==
    /\ call.method = "batch_record_atoms" /\ call.panic = ""
    /\ Len(call.args[1]) = 2
    /\ call.args[1][1].atom_tag = call.args[1][2].atom_tag
    /\ call.args[1][1].repo = call.args[1][2].repo
    /\ call.args[1][1].timestamp # call.args[1][2].timestamp
    /\ get_atom(self, call.args[1][2].atom_tag) = Some(call.args[1][2])
    /\ self.repos[call.args[1][2].repo].last_snap_in = Some(call.args[1][2].timestamp)
    /\ Len(call.ret) = 2
    /\ self.vortex_state.snap_in_count = 2

\* the tags of those among the first k accepted submissions that name the
\* contributor, in submission order
RECURSIVE TagsBy(_, _)
TagsBy(contributor, k) ==
    IF k = 0 THEN <<>>
    ELSE IF log[k].atom.contributor = contributor
         THEN Append(TagsBy(contributor, k - 1), log[k].atom.atom_tag)
         ELSE TagsBy(contributor, k - 1)

Trail(s, contributor) ==
    IF contributor \in DOMAIN s.contributor_atoms THEN s.contributor_atoms[contributor]
    ELSE <<>>

IsPrefix(p, q) == Len(p) <= Len(q) /\ \A i \in 1..Len(p) : p[i] = q[i]

\* C16: the trail of a contributor is the sequence of the tags of the accepted
\* submissions that name it, in submission order, duplicates kept; a
\* contributor has a trail only after a submission; an accepted record_atom
\* appends one entry to one trail and leaves the others alone, and no call
\* removes or reorders an entry.
C16_Trails ==
    /\ [](\A contributor \in Contributors \cup {"nobody"} \cup DOMAIN self.contributor_atoms :
            /\ Trail(self, contributor) = TagsBy(contributor, Len(log))
            /\ contributor \in DOMAIN self.contributor_atoms
                    <=> TagsBy(contributor, Len(log)) # <<>>)
    /\ [][ /\ \A contributor \in DOMAIN self.contributor_atoms :
                IsPrefix(Trail(self, contributor), Trail(self', contributor))
           /\ (call'.method = "record_atom" /\ call'.panic = "") =>
                \A contributor \in Contributors :
                    Trail(self', contributor) =
                        IF contributor = call'.args[1].contributor
                        THEN Append(Trail(self, contributor), call'.args[1].atom_tag)
                        ELSE Trail(self, contributor)
           /\ call'.method \in {"update_coherence", "set_snap_in_threshold"}
                => self'.contributor_atoms = self.contributor_atoms ]_vars

\* a contributor submitted one tag twice with another contributor's
\* submission of the same tag in between
C16_Witness ==
    /\ Len(log) = 3
    /\ log[1].atom.atom_tag = log[2].atom.atom_tag
    /\ log[1].atom.atom_tag = log[3].atom.atom_tag
    /\ log[1].atom.contributor = log[3].atom.contributor
    /\ log[1].atom.contributor # log[2].atom.contributor
    /\ Trail(self, log[1].atom.contributor) = <<log[1].atom.atom_tag, log[1].atom.atom_tag>>
    /\ Trail(self, log[2].atom.contributor) = <<log[1].atom.atom_tag>>
    /\ Cardinality(DOMAIN self.atoms) = 1

\* the accepted submissions to the repo that crossed the threshold in force
CrossingsTo(repo) == {i \in Crossings : log[i].atom.repo = repo}

LastSnapIn(s, repo) ==
    IF repo \in DOMAIN s.repos THEN s.repos[repo].last_snap_in ELSE None

\* C17: last_snap_in of a repo is the timestamp of the latest accepted
\* submission to it that crossed the threshold in force, or nothing when none
\* crossed; an accepted record_atom to the repo sets it to the record's
\* timestamp when coherence_score >= snap_in_threshold, exactly when
\* snap_in_count grows, leaves it otherwise, and leaves every other repo's.
C17_LastSnapIn ==
    /\ [](\A repo \in Repos \cup DOMAIN self.repos :
            LastSnapIn(self, repo) =
                IF CrossingsTo(repo) = {} THEN None
                ELSE Some(log[MaxOf(CrossingsTo(repo))].atom.timestamp))
    /\ [][ (call'.method = "record_atom" /\ call'.panic = "") =>
                LET atom == call'.args[1]
                    crossed == atom.coherence_score >= self.snap_in_threshold
                IN  /\ LastSnapIn(self', atom.repo) =
                            IF crossed THEN Some(atom.timestamp)
                            ELSE LastSnapIn(self, atom.repo)
                    /\ crossed <=> (self'.vortex_state.snap_in_count
                                        = self.vortex_state.snap_in_count + 1)
                    /\ ~crossed => (self'.vortex_state.snap_in_count
                                        = self.vortex_state.snap_in_count)
                    /\ \A other \in (Repos \cup DOMAIN self.repos) \ {atom.repo} :
                            LastSnapIn(self', other) = LastSnapIn(self, other) ]_vars

\* two submissions to one repo crossed, with different timestamps, and a third
\* to the same repo, with the timestamp of the first, did not: the timestamp
\* of the second stays
C17_Witness ==
    /\ call.method = "record_atom" /\ call.panic = ""
    /\ Len(log) = 3
    /\ \A i \in 1..3 : log[i].atom.repo = log[1].atom.repo
    /\ CrossingsTo(log[1].atom.repo) = {1, 2}
    /\ log[1].atom.timestamp # log[2].atom.timestamp
    /\ log[3].atom.timestamp = log[1].atom.timestamp
    /\ self.repos[log[1].atom.repo].last_snap_in = Some(log[2].atom.timestamp)
    /\ call.before # None
    /\ call.before[1].last_snap_in = Some(log[2].atom.timestamp)
    /\ self.vortex_state.snap_in_count = 2

\* the sum of f over the keys in S
RECURSIVE SumOver(_, _)
SumOver(f, S) ==
    IF S = {} THEN 0
    ELSE LET k == CHOOSE x \in S : TRUE IN f[k] + SumOver(f, S \ {k})

AtomCounts(s) == [repo \in DOMAIN s.repos |-> s.repos[repo].atom_count]

TrailLengths(s) == [c \in DOMAIN s.contributor_atoms |-> Len(s.contributor_atoms[c])]

\* C18: total_atoms is the number of accepted submissions, the sum of
\* atom_count over the repos and the sum of the lengths of the trails;
\* snap_in_count <= total_atoms; the record store holds at most that many
\* records.
C18_Counts ==
    /\ self.vortex_state.total_atoms = Len(log)
    /\ self.vortex_state.total_atoms = SumOver(AtomCounts(self), DOMAIN self.repos)
    /\ self.vortex_state.total_atoms
            = SumOver(TrailLengths(self), DOMAIN self.contributor_atoms)
    /\ self.vortex_state.snap_in_count <= self.vortex_state.total_atoms
    /\ Cardinality(DOMAIN self.atoms) <= self.vortex_state.total_atoms

\* one tag submitted three times, to two repos and by two contributors, one
\* of the submissions under the threshold: three are counted, one is stored
C18_Witness ==
    /\ self.vortex_state.total_atoms = 3
    /\ Cardinality(DOMAIN self.atoms) = 1
    /\ Cardinality(DOMAIN self.repos) = 2
    /\ Cardinality(DOMAIN self.contributor_atoms) = 2
    /\ SumOver(AtomCounts(self), DOMAIN self.repos) = 3
    /\ SumOver(TrailLengths(self), DOMAIN self.contributor_atoms) = 3
    /\ self.vortex_state.snap_in_count = 2

\* C19: the global average is within 0..100 and at most the floor of the
\* exact mean of the accepted scores; in an accepted record_atom the values
\* that update_vortex_state and update_repo_state narrow to u8 are under 256,
\* so that the stored averages are these values.
C19_AverageRange ==
    /\ [](/\ self.vortex_state.average_coherence \in 0..100
          /\ log # <<>> => self.vortex_state.average_coherence <= ExactMean)
    /\ [][ (call'.method = "record_atom" /\ call'.panic = "") =>
                LET atom == call'.args[1]
                    vortex == self.vortex_state
                    new_avg == (vortex.total_atoms * vortex.average_coherence
                                    + atom.coherence_score) \div (vortex.total_atoms + 1)
                    found == Get(self.repos, atom.repo)
                    count == IF found = None THEN 0 ELSE found[1].atom_count
                    total == IF found = None THEN 0 ELSE found[1].total_coherence
                    repo_avg == (total + atom.coherence_score) \div (count + 1)
                IN  /\ new_avg < 256
                    /\ self'.vortex_state.average_coherence = new_avg
                    /\ repo_avg < 256
                    /\ self'.repos[atom.repo].average_coherence = repo_avg ]_vars

\* after the scores 99, 0, 0 the global average is 32, under the exact
\* floor mean 33, and the repo that took the first two has average 49
C19_Witness ==
    /\ call.method = "record_atom" /\ call.panic = ""
    /\ Len(log) = 3
    /\ log[1].atom.coherence_score = 99
    /\ log[2].atom.coherence_score = 0
    /\ log[3].atom.coherence_score = 0
    /\ log[1].atom.repo = log[2].atom.repo
    /\ log[3].atom.repo # log[1].atom.repo
    /\ self.vortex_state.average_coherence = 32
    /\ ExactMean = 33
    /\ self.repos[log[1].atom.repo].average_coherence = 49

\* C20, as claimed: every record that get_contributor_atoms(c) returns has
\* contributor c, and the count of get_attribution(c) is the number of
\* accepted submissions that name c.
C20_ContributorRecords ==
    \A c \in Contributors :
        /\ \A i \in 1..Len(get_contributor_atoms(self, c)) :
                get_contributor_atoms(self, c)[i].contributor = c
        /\ get_attribution(self, c)[1] = Len(TagsBy(c, Len(log)))

====
